---------------------------- MODULE Spec2Model ----------------------------
(***************************************************************************)
(* Model of osmx-rs: the external sorter (bin/src/sorter.rs), the ingest   *)
(* pipeline `expand` (bin/src/expand.rs), the record builders              *)
(* (bin/src/builders.rs) and the read API (src/database.rs, src/types.rs). *)
(***************************************************************************)
EXTENDS Integers, Sequences, FiniteSets, TLC

(***************************************************************************)
(* Bounds of the model.                                                    *)
(***************************************************************************)
\* sorter.rs:15 sets MAX_CACHE_SIZE to 4_000_000; the model spills after 2.
MAX_CACHE_SIZE == 2
\* number of Sorter::push calls explored in the stand-alone sorter
MaxPush == 4
\* keys and values of the records pushed to the stand-alone sorter
MaxKey == 2

\* Option<T>: None is the empty sequence, Some(x) the sequence of x
None == <<>>
Some(x) == <<x>>

(***************************************************************************)
(* The state: the stand-alone sorter, one run of expand, and a reader.      *)
(***************************************************************************)
VARIABLES
    s_pc,        \* foreground: "push", "join", "seed", "merge", "done", "panicked"
    s_chan,      \* records sent on tx and not yet received by the worker
    s_txOpen,    \* the Sender has not been dropped
    s_count,     \* Sorter.count
    s_pushed,    \* every record pushed, in push order (history)
    w_pc,        \* worker: "recv", "returned"
    w_state,     \* the SortWorker of the worker thread
    s_segments,  \* segments returned by the join
    s_gen        \* state of the generator of SortReader::sorted

sorterVars == <<s_pc, s_chan, s_txOpen, s_count, s_pushed, w_pc, w_state,
                s_segments, s_gen>>

VARIABLES
    pc,        \* position of run: see ProgramOrder, or "panicked" / "failed"
    input,     \* the elements delivered by the reader so far
    tables,    \* the tables as seen by the write transaction
    log,       \* every put and commit issued, in order
    file,      \* the output file: whether its tables exist, and their durable content
    tempdir,   \* the scratch directory exists
    sorters,   \* name -> [pushed, count] of the five Sorters
    faults,    \* 1 once the KV engine has reported a storage error, else 0
    r_result   \* the last call of the read API and what it returned

expandVars == <<pc, input, tables, log, file, tempdir, sorters, faults>>

vars == <<sorterVars, expandVars, r_result>>

(***************************************************************************)
(* IDPair and its derived ordering (expand.rs:24-25).                      *)
(***************************************************************************)
IDPair(k, v) == <<k, v>>

\* mutant: compares the first field only
PairLessKeyOnly(a, b) == a[1] < b[1]

\* #[derive(PartialOrd, Ord)] on IDPair(u64, u64): lexicographic
PairLess(a, b) == a[1] < b[1] \/ (a[1] = b[1] /\ a[2] < b[2])

RECURSIVE InsertSorted(_, _)
InsertSorted(x, s) ==
    IF s = <<>> THEN <<x>>
    ELSE IF PairLess(x, Head(s)) THEN <<x>> \o s
    ELSE <<Head(s)>> \o InsertSorted(x, Tail(s))

RECURSIVE InsertionSort(_)
InsertionSort(s) ==
    IF s = <<>> THEN <<>> ELSE InsertSorted(Head(s), InsertionSort(Tail(s)))

\* mutant: the cache is written in arrival order
sort_unstable_missing(cache) == cache

\* self.cache.sort_unstable() (sorter.rs:61)
sort_unstable(cache) == InsertionSort(cache)

(***************************************************************************)
(* SortWorker (sorter.rs:17-76).  A worker is a record                     *)
(*   [cache, segments, count]; a segment file is the sequence of records   *)
(* serialized into it.                                                     *)
(***************************************************************************)
SortWorker_new == [cache |-> <<>>, segments |-> <<>>, count |-> 0]

\* SortWorker::flush: a fresh segment file receives the sorted cache
flush(w) ==
    [w EXCEPT !.segments = Append(w.segments, sort_unstable(w.cache)),
              !.cache = <<>>]

\* mutant: the name of the sorter is left out of the file name
file_path_unnamed(name, segments) == <<"", Len(segments)>>

\* lines 49-53: tempdir.join("sort_<name>_segment.<segments.len()>.bin"),
\* as <<name, number>>
file_path(name, segments) == <<name, Len(segments)>>

\* mutant: the cache is spilled only once it holds more than MAX_CACHE_SIZE
push_spills_late(w, val) ==
    LET w1 == [w EXCEPT !.cache = Append(w.cache, val), !.count = w.count + 1]
    IN IF Len(w1.cache) > MAX_CACHE_SIZE THEN flush(w1) ELSE w1

\* SortWorker::push
push(w, val) ==
    LET w1 == [w EXCEPT !.cache = Append(w.cache, val), !.count = w.count + 1]
    IN IF Len(w1.cache) >= MAX_CACHE_SIZE THEN flush(w1) ELSE w1

\* the worker thread of Sorter::new run to completion on the values it
\* receives: push each, then the final flush; returns sorter.segments
RECURSIVE worker_loop(_, _)
worker_loop(w, vals) ==
    IF vals = <<>> THEN w ELSE worker_loop(push(w, Head(vals)), Tail(vals))

worker_thread(vals) == flush(worker_loop(SortWorker_new, vals)).segments

\* the paths of the files the worker of the sorter called name has created
\* when it has written these segments, in the order of creation: each
\* flush takes the path from the segments it already has (lines 49-60)
RECURSIVE paths_created(_, _)
paths_created(name, segments) ==
    IF segments = <<>> THEN <<>>
    ELSE LET before == SubSeq(segments, 1, Len(segments) - 1)
         IN Append(paths_created(name, before), file_path(name, before))

(***************************************************************************)
(* SortReader::sorted (sorter.rs:91-119).  The state of the generator is   *)
(*   [pos, pqueue, prev, out, status]: pos[r] is the number of records     *)
(* reader r has consumed, pqueue the heap as a set of <<record, ridx>>,    *)
(* out the records yielded so far.                                         *)
(***************************************************************************)
\* Ord on (T, usize) under Reverse: the heap pops the least entry
EntryLess(a, b) == PairLess(a[1], b[1]) \/ (a[1] = b[1] /\ a[2] < b[2])

\* mutant: a BinaryHeap without Reverse pops the greatest entry
HeapPop_without_Reverse(pqueue) ==
    CHOOSE e \in pqueue : \A f \in pqueue : f = e \/ EntryLess(f, e)

\* BinaryHeap<Reverse<(T, usize)>>::pop (line 108) on a heap with entries
HeapPop(pqueue) == CHOOSE e \in pqueue : \A f \in pqueue : f = e \/ EntryLess(e, f)

\* bincode::deserialize_from(&mut readers[ridx]): the next record of the
\* file, or an error at the end of the file
deserialize_from(segments, pos, ridx) ==
    IF pos[ridx] < Len(segments[ridx])
    THEN [ok |-> TRUE, val |-> segments[ridx][pos[ridx] + 1]]
    ELSE [ok |-> FALSE, val |-> None]

\* lines 93-105: open the readers and seed the heap with the first record
\* of every segment; the unwrap on line 101 panics on an empty segment
sorted_seed(segments) ==
    LET n == Len(segments)
        pos0 == [r \in 1..n |-> 0]
        bad == \E r \in 1..n : ~deserialize_from(segments, pos0, r).ok
    IN IF bad
       THEN [pos |-> pos0, pqueue |-> {}, prev |-> None, out |-> <<>>,
             status |-> "panicked"]
       ELSE [pos |-> [r \in 1..n |-> 1],
             pqueue |-> {<<segments[r][1], r>> : r \in 1..n},
             prev |-> None, out |-> <<>>,
             status |-> "merging"]

\* mutant: every popped record is yielded
yields_always(prev, curr) == TRUE

\* line 109: prev.is_none() || curr != prev.unwrap()
yields(prev, curr) == prev = None \/ curr # prev[1]

\* lines 107-116: one iteration of the merge loop, given the result next of
\* the read on line 112; `if let Ok(next)` pushes the record read, and on
\* any Err the reader of the segment is not read again
sorted_step_read(g, next) ==
    LET e == HeapPop(g.pqueue)
        curr == e[1]
        ridx == e[2]
        rest == g.pqueue \ {e}
        pq1 == IF next.ok THEN rest \cup {<<next.val, ridx>>} ELSE rest
    IN [pos |-> IF next.ok THEN [g.pos EXCEPT ![ridx] = @ + 1] ELSE g.pos,
        pqueue |-> pq1,
        prev |-> Some(curr),
        out |-> IF yields(g.prev, curr) THEN Append(g.out, curr) ELSE g.out,
        status |-> IF pq1 = {} THEN "done" ELSE "merging"]

\* lines 107-116 with the read of line 112 on an intact segment file
sorted_step(segments, g) ==
    sorted_step_read(g, deserialize_from(segments, g.pos, HeapPop(g.pqueue)[2]))

RECURSIVE sorted_run(_, _)
sorted_run(segments, g) ==
    IF g.status = "merging" THEN sorted_run(segments, sorted_step(segments, g))
    ELSE g

\* the whole iterator consumed: [status, out]
sorted(segments) ==
    LET g0 == sorted_seed(segments)
    IN sorted_run(segments, IF g0.status = "merging" /\ g0.pqueue = {}
                            THEN [g0 EXCEPT !.status = "done"] ELSE g0)

(***************************************************************************)
(* Location (builders.rs:24-38, types.rs:16-32).  A coordinate in degrees  *)
(* is the rational deg / DegDen; the i32 fields are stored as four         *)
(* little-endian bytes.                                                    *)
(***************************************************************************)
\* types.rs:20
COORDINATE_PRECISION == 10000000
\* input coordinates are multiples of 1 / (DegSub * 1e7) degree
DegSub == 10
DegDen == DegSub * COORDINATE_PRECISION

Abs(x) == IF x < 0 THEN 0 - x ELSE x
Sign(x) == IF x < 0 THEN 0 - 1 ELSE 1

\* f64::round of the rational num / den: half away from zero
Round(num, den) == Sign(num) * ((2 * Abs(num) + den) \div (2 * den))

\* f64::round of (num / den) / 1e7, without forming den * 1e7
RoundOver1e7(num, den) ==
    Sign(num) * ((((2 * Abs(num)) \div den) + COORDINATE_PRECISION)
                 \div (2 * COORDINATE_PRECISION))

\* i32::to_le_bytes
i32_to_le_bytes(x) ==
    <<x % 256, (x \div 256) % 256, (x \div 65536) % 256, (x \div 16777216) % 256>>

\* i32::from_le_bytes
i32_from_le_bytes(b) ==
    b[1] + 256 * b[2] + 65536 * b[3]
      + 16777216 * (IF b[4] >= 128 THEN b[4] - 256 ELSE b[4])

\* u32::to_le_bytes
u32_to_le_bytes(x) ==
    <<x % 256, (x \div 256) % 256, (x \div 65536) % 256, (x \div 16777216) % 256>>

\* LocationBuilder::build (builders.rs:31-37): the coordinate is divided
\* by 1e7 before it is rounded
LocationBuilder_build(longitude, latitude, version) ==
    i32_to_le_bytes(RoundOver1e7(longitude, DegDen))
      \o i32_to_le_bytes(RoundOver1e7(latitude, DegDen))
      \o u32_to_le_bytes(version)

\* Location::lon / Location::lat (types.rs:23-31): the numerator of the
\* result over COORDINATE_PRECISION
Location_lon(buf) == i32_from_le_bytes(SubSeq(buf, 1, 4))
Location_lat(buf) == i32_from_le_bytes(SubSeq(buf, 5, 8))

(***************************************************************************)
(* Cap'n Proto records (builders.rs:40-144, types.rs:42-200).  A message   *)
(* is the sequence of words of its root struct: every list is a length     *)
(* word followed by its elements.                                          *)
(***************************************************************************)
Word(t, n, s) == [t |-> t, n |-> n, s |-> s]

RECURSIVE Flatten(_)
Flatten(ss) == IF ss = <<>> THEN <<>> ELSE Head(ss) \o Flatten(Tail(ss))

TextList(texts) ==
    <<Word("list", Len(texts), "")>> \o [i \in 1..Len(texts) |-> Word("text", 0, texts[i])]

U64List(ids) ==
    <<Word("list", Len(ids), "")>> \o [i \in 1..Len(ids) |-> Word("u64", ids[i], "")]

MemberWords(m) == <<Word("type", 0, m.type), Word("u64", m.ref, ""), Word("text", 0, m.role)>>

MemberList(ms) ==
    <<Word("list", Len(ms), "")>> \o Flatten([i \in 1..Len(ms) |-> MemberWords(ms[i])])

\* capnp::serialize::write_message for the three root structs
write_node(root) == TextList(root.tags)
write_way(root) == TextList(root.tags) \o U64List(root.nodes)
write_relation(root) == TextList(root.tags) \o MemberList(root.members)

\* a list of one-word elements starting at word `at`: [items, next]
ReadList(buf, at) ==
    LET n == buf[at].n
    IN [items |-> [i \in 1..n |-> buf[at + i]], next |-> at + n + 1]

\* TypedReader::get for the three root structs
read_node(buf) ==
    [tags |-> [i \in 1..ReadList(buf, 1).next - 2 |-> ReadList(buf, 1).items[i].s]]

read_way(buf) ==
    LET t == ReadList(buf, 1)
        n == ReadList(buf, t.next)
    IN [tags |-> [i \in 1..Len(t.items) |-> t.items[i].s],
        nodes |-> [i \in 1..Len(n.items) |-> n.items[i].n]]

read_relation(buf) ==
    LET t == ReadList(buf, 1)
        cnt == buf[t.next].n
    IN [tags |-> [i \in 1..Len(t.items) |-> t.items[i].s],
        members |-> [i \in 1..cnt |->
                       [type |-> buf[t.next + 3 * i - 2].s,
                        ref |-> buf[t.next + 3 * i - 1].n,
                        role |-> buf[t.next + 3 * i].s]]]

\* mutant: every pair is flattened value first
flat_tags_swapped(tags) == Flatten([i \in 1..Len(tags) |-> <<tags[i][2], tags[i][1]>>])

\* node.tags().map(|(k, v)| [k, v]).flatten().collect() (expand.rs:166)
flat_tags(tags) == Flatten(tags)

\* itertools tuples(): consecutive pairs, an odd last string is dropped
tuples(texts) == [i \in 1..(Len(texts) \div 2) |-> <<texts[2 * i - 1], texts[2 * i]>>]

\* init_root: the root struct is allocated anew, every field at its default
node_init_root == [tags |-> <<>>]
way_init_root == [tags |-> <<>>, nodes |-> <<>>]
relation_init_root == [tags |-> <<>>, members |-> <<>>]

\* NodeBuilder::set_tags (builders.rs:52-56)
NodeBuilder_set_tags(root, tags) == [node_init_root EXCEPT !.tags = tags]

\* WayBuilder::set_tags (builders.rs:77-81)
WayBuilder_set_tags(root, tags) == [way_init_root EXCEPT !.tags = tags]

RECURSIVE Dedup(_)
Dedup(s) ==
    IF s = <<>> THEN <<>>
    ELSE LET r == Dedup(SubSeq(s, 1, Len(s) - 1))
         IN IF \E i \in 1..Len(r) : r[i] = s[Len(s)] THEN r ELSE Append(r, s[Len(s)])

\* mutant: the node refs are deduplicated before they are stored
WayBuilder_set_nodes_dedup(root, nodes) == [way_init_root EXCEPT !.nodes = Dedup(nodes)]

\* WayBuilder::set_nodes (builders.rs:83-87): init_root, then the list
WayBuilder_set_nodes(root, nodes) == [way_init_root EXCEPT !.nodes = nodes]

\* RelationBuilder::set_tags (builders.rs:108-112)
RelationBuilder_set_tags(root, tags) == [relation_init_root EXCEPT !.tags = tags]

\* builders.rs:125-129: ElementType to the enumerant of relation_member::Type
member_type(t) ==
    CASE t = "Node" -> "node"
      [] t = "Way" -> "way"
      [] t = "Relation" -> "relation"

\* mutant: set_members starts from a fresh root, as set_nodes does
RelationBuilder_set_members_init_root(root, members) ==
    [relation_init_root EXCEPT !.members =
        [i \in 1..Len(members) |->
            [type |-> member_type(members[i].type), ref |-> members[i].ref,
             role |-> members[i].role]]]

\* RelationBuilder::set_members (builders.rs:114-137): get_root, then the list
RelationBuilder_set_members(root, members) ==
    [root EXCEPT !.members =
        [i \in 1..Len(members) |->
            [type |-> member_type(members[i].type), ref |-> members[i].ref,
             role |-> members[i].role]]]

\* Way::nodes (types.rs:102-105)
Way_nodes(buf) == read_way(buf).nodes

\* mutant: the element that follows the first is taken for the last
Iterator_last_is_next(seq) == IF seq = <<>> THEN None ELSE Some(Head(seq))

\* Iterator::last on what is left of an iterator: the last element, None
\* when nothing is left
Iterator_last(seq) == IF seq = <<>> THEN None ELSE Some(seq[Len(seq)])

\* mutant: last is taken from a second iterator over all the nodes
Way_is_closed_fresh_iterator(buf) ==
    LET nodes == Way_nodes(buf)
        first == IF nodes = <<>> THEN None ELSE Some(Head(nodes))
    IN first = Iterator_last(nodes)

\* Way::is_closed (types.rs:107-114): nodes.next() takes the first node
\* off the iterator, nodes.last() is the last of those that remain
Way_is_closed(buf) ==
    LET nodes == Way_nodes(buf)
        first == IF nodes = <<>> THEN None ELSE Some(Head(nodes))
        rest == IF nodes = <<>> THEN <<>> ELSE Tail(nodes)
        last == Iterator_last(rest)
    IN first = last

\* Way::tags (types.rs:90-100)
Way_tags(buf) == tuples(read_way(buf).tags)

\* Node::tags (types.rs:53-63)
Node_tags(buf) == tuples(read_node(buf).tags)

\* Iterator::find(|(k, _)| k == &key).map(|(_, v)| v) on a sequence of pairs
RECURSIVE find_tag(_, _)
find_tag(pairs, key) ==
    IF pairs = <<>> THEN None
    ELSE IF Head(pairs)[1] = key THEN Some(Head(pairs)[2])
    ELSE find_tag(Tail(pairs), key)

\* Node::tag (types.rs:48-51)
Node_tag(buf, key) == find_tag(Node_tags(buf), key)

\* Relation::tags (types.rs:141-151)
Relation_tags(buf) == tuples(read_relation(buf).tags)

\* RelationMember::id (types.rs:185-194): the kind of the ElementId
RelationMember_id(t) ==
    CASE t = "node" -> "Node"
      [] t = "way" -> "Way"
      [] t = "relation" -> "Relation"

\* Relation::members with RelationMember::id and role (types.rs:153-199)
Relation_members(buf) ==
    LET ms == read_relation(buf).members
    IN [i \in 1..Len(ms) |->
          [type |-> RelationMember_id(ms[i].type), ref |-> ms[i].ref, role |-> ms[i].role]]

(***************************************************************************)
(* The stand-alone Sorter (sorter.rs:122-177): a foreground thread that    *)
(* pushes and then consumes sorted(), and the worker thread.               *)
(***************************************************************************)
Records == {IDPair(k, v) : k \in 1..MaxKey, v \in 1..MaxKey}

GenIdle == [pos |-> <<>>, pqueue |-> {}, prev |-> None, out |-> <<>>,
            status |-> "idle"]

\* mutant: a channel of capacity one, whose send waits for the worker
Sorter_push_sync(val) ==
    /\ s_pc = "push"
    /\ s_count < MaxPush
    /\ Len(s_chan) < 1
    /\ s_chan' = Append(s_chan, val)
    /\ s_count' = s_count + 1
    /\ s_pushed' = Append(s_pushed, val)
    /\ UNCHANGED <<s_pc, s_txOpen, w_pc, w_state, s_segments, s_gen>>
    /\ UNCHANGED <<expandVars, r_result>>

\* mutant: count is the number of distinct records pushed
Sorter_push_counts_distinct(val) ==
    /\ s_pc = "push"
    /\ s_count < MaxPush
    /\ IF w_pc = "panicked"
       THEN /\ s_pc' = "panicked"
            /\ UNCHANGED <<s_chan, s_count, s_pushed>>
       ELSE /\ s_chan' = Append(s_chan, val)
            /\ s_count' = Cardinality({s_pushed[i] : i \in 1..Len(s_pushed)} \cup {val})
            /\ s_pushed' = Append(s_pushed, val)
            /\ UNCHANGED s_pc
    /\ UNCHANGED <<s_txOpen, w_pc, w_state, s_segments, s_gen>>
    /\ UNCHANGED <<expandVars, r_result>>

\* Sorter::push (lines 158-161): send on the unbounded channel of line 131
\* queues the value and returns; once the worker has unwound and dropped
\* the receiver, send returns Err and the unwrap panics
Sorter_push(val) ==
    /\ s_pc = "push"
    /\ s_count < MaxPush
    /\ IF w_pc = "panicked"
       THEN /\ s_pc' = "panicked"
            /\ UNCHANGED <<s_chan, s_count, s_pushed>>
       ELSE /\ s_chan' = Append(s_chan, val)
            /\ s_count' = s_count + 1
            /\ s_pushed' = Append(s_pushed, val)
            /\ UNCHANGED s_pc
    /\ UNCHANGED <<s_txOpen, w_pc, w_state, s_segments, s_gen>>
    /\ UNCHANGED <<expandVars, r_result>>

\* Sorter::sorted, line 172: drop(self.tx)
Sorter_sorted_drop ==
    /\ s_pc = "push"
    /\ s_txOpen' = FALSE
    /\ s_pc' = "join"
    /\ UNCHANGED <<s_chan, s_count, s_pushed, w_pc, w_state, s_segments, s_gen>>
    /\ UNCHANGED <<expandVars, r_result>>

\* mutant: the result of join is not looked at, the segments written so
\* far are merged
Sorter_sorted_join_unchecked ==
    /\ s_pc = "join"
    /\ w_pc \in {"returned", "panicked"}
    /\ s_segments' = w_state.segments
    /\ s_pc' = "seed"
    /\ UNCHANGED <<s_chan, s_txOpen, s_count, s_pushed, w_pc, w_state, s_gen>>
    /\ UNCHANGED <<expandVars, r_result>>

\* mutant: the segment list is taken without waiting for the worker
Sorter_sorted_join_no_wait ==
    /\ s_pc = "join"
    /\ s_segments' = w_state.segments
    /\ s_pc' = "seed"
    /\ UNCHANGED <<s_chan, s_txOpen, s_count, s_pushed, w_pc, w_state, s_gen>>
    /\ UNCHANGED <<expandVars, r_result>>

\* Sorter::sorted, lines 173-175: join waits for the worker thread to end;
\* join().unwrap() panics if the worker panicked, otherwise the reader is
\* built on the segments the worker returned
Sorter_sorted_join ==
    /\ s_pc = "join"
    /\ w_pc \in {"returned", "panicked"}
    /\ IF w_pc = "panicked"
       THEN s_pc' = "panicked" /\ UNCHANGED s_segments
       ELSE s_pc' = "seed" /\ s_segments' = w_state.segments
    /\ UNCHANGED <<s_chan, s_txOpen, s_count, s_pushed, w_pc, w_state, s_gen>>
    /\ UNCHANGED <<expandVars, r_result>>

\* first resumption of the generator: lines 93-105
Reader_seed ==
    /\ s_pc = "seed"
    /\ LET g == sorted_seed(s_segments)
       IN /\ s_gen' = g
          /\ s_pc' = IF g.status = "panicked" THEN "panicked"
                     ELSE IF g.pqueue = {} THEN "done" ELSE "merge"
    /\ UNCHANGED <<s_chan, s_txOpen, s_count, s_pushed, w_pc, w_state, s_segments>>
    /\ UNCHANGED <<expandVars, r_result>>

\* one iteration of the loop of lines 107-116
Reader_step ==
    /\ s_pc = "merge"
    /\ LET g == sorted_step(s_segments, s_gen)
       IN /\ s_gen' = g
          /\ s_pc' = IF g.status = "done" THEN "done" ELSE "merge"
    /\ UNCHANGED <<s_chan, s_txOpen, s_count, s_pushed, w_pc, w_state, s_segments>>
    /\ UNCHANGED <<expandVars, r_result>>

\* line 101: the read of the first record of a segment that holds records
\* fails (the file is damaged or cannot be read); the unwrap panics
Reader_seed_decode_error ==
    /\ s_pc = "seed"
    /\ \E r \in 1..Len(s_segments) : s_segments[r] # <<>>
    /\ s_gen' = [GenIdle EXCEPT !.status = "panicked"]
    /\ s_pc' = "panicked"
    /\ UNCHANGED <<s_chan, s_txOpen, s_count, s_pushed, w_pc, w_state, s_segments>>
    /\ UNCHANGED <<expandVars, r_result>>

\* lines 107-116 when the read of line 112 fails although the segment
\* still holds records: the Err is dropped by `if let Ok(next)`
Reader_step_decode_error ==
    /\ s_pc = "merge"
    /\ deserialize_from(s_segments, s_gen.pos, HeapPop(s_gen.pqueue)[2]).ok
    /\ LET g == sorted_step_read(s_gen, [ok |-> FALSE, val |-> None])
       IN /\ s_gen' = g
          /\ s_pc' = IF g.status = "done" THEN "done" ELSE "merge"
    /\ UNCHANGED <<s_chan, s_txOpen, s_count, s_pushed, w_pc, w_state, s_segments>>
    /\ UNCHANGED <<expandVars, r_result>>

\* worker thread, lines 141-143: receive one value and push it
Worker_recv ==
    /\ w_pc = "recv"
    /\ s_chan # <<>>
    /\ w_state' = push(w_state, Head(s_chan))
    /\ s_chan' = Tail(s_chan)
    /\ UNCHANGED <<s_pc, s_txOpen, s_count, s_pushed, w_pc, s_segments, s_gen>>
    /\ UNCHANGED <<expandVars, r_result>>

\* worker thread, lines 141-143, when the push spills and flush returns Err
\* (the segment file cannot be created or written): the unwrap of line 44
\* panics, the thread unwinds and drops the receiver with what it holds
Worker_recv_flush_error ==
    /\ w_pc = "recv"
    /\ s_chan # <<>>
    /\ Len(w_state.cache) + 1 >= MAX_CACHE_SIZE
    /\ w_pc' = "panicked"
    /\ s_chan' = <<>>
    /\ UNCHANGED <<s_pc, s_txOpen, s_count, s_pushed, w_state, s_segments, s_gen>>
    /\ UNCHANGED <<expandVars, r_result>>

\* worker thread, line 146, when the final flush returns Err: the unwrap
\* panics
Worker_close_flush_error ==
    /\ w_pc = "recv"
    /\ s_chan = <<>>
    /\ ~s_txOpen
    /\ w_pc' = "panicked"
    /\ UNCHANGED <<s_pc, s_chan, s_txOpen, s_count, s_pushed, w_state, s_segments, s_gen>>
    /\ UNCHANGED <<expandVars, r_result>>

\* worker thread, lines 145-147: the channel is closed and drained
Worker_close ==
    /\ w_pc = "recv"
    /\ s_chan = <<>>
    /\ ~s_txOpen
    /\ w_state' = flush(w_state)
    /\ w_pc' = "returned"
    /\ UNCHANGED <<s_pc, s_chan, s_txOpen, s_count, s_pushed, s_segments, s_gen>>
    /\ UNCHANGED <<expandVars, r_result>>

(***************************************************************************)
(* expand (expand.rs).  The elements the PBF reader can deliver.           *)
(***************************************************************************)
\* number of elements the input delivers
MaxElems == 3

Elem(kind, id, lon, lat, tags, refs, members) ==
    [kind |-> kind, id |-> id, lon |-> lon, lat |-> lat, version |-> 1,
     tags |-> tags, refs |-> refs, members |-> members]

Member(type, ref, role) == [type |-> type, ref |-> ref, role |-> role]

\* the second key occurs twice
Tags == <<<<"amenity", "cafe">>, <<"name", "x">>, <<"name", "y">>>>

\* <<lon, lat, tags>> of the nodes, (lon, lat) in units of 1 / DegDen degree
NodeVariants == {<<0, 0, Tags>>, <<3 * DegDen + 15, 0 - 26, <<>>>>}

\* <<tags, refs>> of the ways
WayVariants == {<<Tags, <<1, 1>>>>, <<<<>>, <<2, 1, 2>>>>}

\* <<tags, members>> of the relations
RelationVariants ==
    {<<Tags, <<Member("Node", 1, "from"), Member("Way", 1, "via"),
               Member("Node", 1, "from"), Member("Relation", 2, "")>>>>,
     <<<<>>, <<Member("Node", 2, ""), Member("Node", 1, "")>>>>}

NodeKinds == {"Node", "DenseNode"}

\* the id of the element of these kinds delivered last, 0 before the first
LastId(kinds) ==
    LET S == {i \in 1..Len(input) : input[i].kind \in kinds}
    IN IF S = {} THEN 0 ELSE input[CHOOSE i \in S : \A j \in S : j <= i].id

\* the ids the next element of these kinds may carry: the successor of the
\* last one, or the last one again (an input that is not strictly increasing)
NextIds(kinds) == {LastId(kinds), LastId(kinds) + 1} \ {0}

NodeElems(kind) ==
    {Elem(kind, id, n[1], n[2], n[3], <<>>, <<>>) :
        id \in NextIds(NodeKinds), n \in NodeVariants}

WayElems ==
    {Elem("Way", id, 0, 0, w[1], w[2], <<>>) : id \in NextIds({"Way"}), w \in WayVariants}

RelationElems ==
    {Elem("Relation", id, 0, 0, r[1], <<>>, r[2]) :
        id \in NextIds({"Relation"}), r \in RelationVariants}

(***************************************************************************)
(* The tables and the five sorters.                                        *)
(***************************************************************************)
ElementTables == {"locations", "nodes", "ways", "relations"}

\* the order of lines 295-299
IndexTables == <<"cell_node", "node_way", "node_relation", "way_relation", "relation_relation">>

IndexTableSet == {IndexTables[i] : i \in 1..Len(IndexTables)}

AllTables == {"metadata"} \cup ElementTables \cup IndexTableSet

EmptyTables == [t \in AllTables |-> <<>>]

Sorter_new == [pushed |-> <<>>, count |-> 0]

PutEvent(table, key, val, ok) == [op |-> "put", table |-> table, key |-> key, val |-> val, ok |-> ok]
CommitEvent == [op |-> "commit", table |-> "", key |-> 0, val |-> 0, ok |-> TRUE]

\* the operations of a handler, in program order
Put(table, key, val) == [op |-> "put", target |-> table, key |-> key, val |-> val]
Push(name, pair) == [op |-> "push", target |-> name, key |-> pair[1], val |-> pair[2]]

\* the orders in which a HashSet can be iterated
Orders(S) == {o \in [1..Cardinality(S) -> S] : \A i, j \in 1..Cardinality(S) : o[i] = o[j] => i = j}

Range(f) == {f[i] : i \in DOMAIN f}

(***************************************************************************)
(* Cell ids (s2::cellid::CellID as used by expand.rs:158-159 and           *)
(* lib.rs:146-147) on one face: the id of the cell at position pos of its  *)
(* level is (2 * pos + 1) * lsb_for_level(level); a cell's descendants are *)
(* the ids in [id - lsb + 1, id + lsb - 1].                                *)
(***************************************************************************)
\* the level of the cells that key cell_node (lib.rs:24; 16 in the program)
CELL_INDEX_LEVEL == 1
\* the level of the leaf cells (30 in the program)
MAX_LEVEL == CELL_INDEX_LEVEL + 1

\* CellID::lsb_for_level
lsb_for_level(level) == 4 ^ (MAX_LEVEL - level)

\* CellID::lsb: the lowest set bit of the id
RECURSIVE lsb(_)
lsb(id) == IF id % 2 = 1 THEN 1 ELSE 2 * lsb(id \div 2)

\* CellID::parent(level): (id & -lsb) | lsb
parent(id, level) ==
    (id \div (2 * lsb_for_level(level))) * (2 * lsb_for_level(level)) + lsb_for_level(level)

\* CellID::child_begin_at_level
child_begin_at_level(id, level) == id - lsb(id) + lsb_for_level(level)

\* CellID::child_end_at_level
child_end_at_level(id, level) == id + lsb(id) + lsb_for_level(level)

\* the position on the curve of the leaf in column i and row j
RECURSIVE curve_pos(_, _, _)
curve_pos(i, j, level) ==
    IF level = 0 THEN 0
    ELSE 4 * curve_pos(i \div 2, j \div 2, level - 1) + 2 * (j % 2) + (i % 2)

\* CellID::from(LatLng::from_degrees(lat, lon)): the leaf cell of the point;
\* the face spans 8 degrees in each direction around (0, 0)
leaf_cell(lat, lon) ==
    LET side == (8 * DegDen) \div (2 ^ MAX_LEVEL)
        i == (lon + 4 * DegDen) \div side
        j == (lat + 4 * DegDen) \div side
    IN 2 * curve_pos(i, j, MAX_LEVEL) + 1

\* CellID::from(latlng).parent(CELL_INDEX_LEVEL) (expand.rs:158-159)
cell_of(lat, lon) == parent(leaf_cell(lat, lon), CELL_INDEX_LEVEL)

\* mutant: the node record is put whether or not the node has tags
node_ops_untagged_stored(node) ==
    <<Put("locations", node.id, LocationBuilder_build(node.lon, node.lat, node.version)),
      Push("cell_node", IDPair(cell_of(node.lat, node.lon), node.id)),
      Put("nodes", node.id,
          write_node(NodeBuilder_set_tags(node_init_root, flat_tags(node.tags))))>>

\* Element::Node (expand.rs:141-172)
node_ops(node) ==
    <<Put("locations", node.id, LocationBuilder_build(node.lon, node.lat, node.version)),
      Push("cell_node", IDPair(cell_of(node.lat, node.lon), node.id))>>
    \o (IF Len(node.tags) = 0 THEN <<>>
        ELSE <<Put("nodes", node.id,
                   write_node(NodeBuilder_set_tags(node_init_root, flat_tags(node.tags))))>>)

\* mutant: the dense handler stores a nodes record for untagged nodes too
dense_node_ops_untagged_stored(node) ==
    <<Put("locations", node.id, LocationBuilder_build(node.lon, node.lat, node.version)),
      Push("cell_node", IDPair(cell_of(node.lat, node.lon), node.id)),
      Put("nodes", node.id,
          write_node(NodeBuilder_set_tags(node_init_root, flat_tags(node.tags))))>>

\* Element::DenseNode (expand.rs:173-204)
dense_node_ops(node) ==
    <<Put("locations", node.id, LocationBuilder_build(node.lon, node.lat, node.version)),
      Push("cell_node", IDPair(cell_of(node.lat, node.lon), node.id))>>
    \o (IF Len(node.tags) = 0 THEN <<>>
        ELSE <<Put("nodes", node.id,
                   write_node(NodeBuilder_set_tags(node_init_root, flat_tags(node.tags))))>>)

\* mutant: the way is stored under its first node ref
way_key_first_ref(way) == way.refs[1]

\* let way_id = way.id() as u64 (expand.rs:206)
way_key(way) == way.id

\* mutant: the index pairs are put into node_way while the way is handled
way_ops_direct(way, order) ==
    <<Put("ways", way.id, write_way(WayBuilder_set_nodes(way_init_root, way.refs)))>>
    \o [i \in 1..Len(order) |-> Put("node_way", order[i], way.id)]

\* mutant: a pair is pushed for every node ref, repeated or not
way_ops_push_every_ref(way, order) ==
    LET b1 == WayBuilder_set_tags(way_init_root, flat_tags(way.tags))
        b2 == WayBuilder_set_nodes(b1, way.refs)
    IN <<Put("ways", way_key(way), write_way(b2))>>
       \o [i \in 1..Len(way.refs) |-> Push("node_way", IDPair(way.refs[i], way.id))]

\* Element::Way (expand.rs:205-227); order is the iteration order of nodes_set
way_ops(way, order) ==
    LET b1 == WayBuilder_set_tags(way_init_root, flat_tags(way.tags))
        b2 == WayBuilder_set_nodes(b1, way.refs)
    IN <<Put("ways", way_key(way), write_way(b2))>>
       \o [i \in 1..Len(order) |-> Push("node_way", IDPair(order[i], way.id))]

MembersOf(rel, type) == {rel.members[i].ref : i \in {j \in 1..Len(rel.members) : rel.members[j].type = type}}

\* Element::Relation (expand.rs:228-290); on, ow, or are the iteration
\* orders of node_members, way_members and relation_members
relation_ops(rel, on, ow, or) ==
    LET b1 == RelationBuilder_set_tags(relation_init_root, flat_tags(rel.tags))
        b2 == RelationBuilder_set_members(b1, rel.members)
    IN <<Put("relations", rel.id, write_relation(b2))>>
       \o [i \in 1..Len(on) |-> Push("node_relation", IDPair(on[i], rel.id))]
       \o [i \in 1..Len(ow) |-> Push("way_relation", IDPair(ow[i], rel.id))]
       \o [i \in 1..Len(or) |-> Push("relation_relation", IDPair(or[i], rel.id))]

\* mutant: APPEND accepts every key
append_ok_any_key(rows, key) == TRUE

\* txn.put(.., WriteFlags::APPEND): the key must exceed the last key
append_ok(rows, key) == rows = <<>> \/ rows[Len(rows)][1] < key

\* txn.put(.., WriteFlags::APPEND_DUP): the pair must exceed the last pair
append_dup_ok(rows, key, val) == rows = <<>> \/ PairLess(rows[Len(rows)], <<key, val>>)

\* Sorter::push as seen by run: the record is sent and counted
sorter_push(srt, pair) == [pushed |-> Append(srt.pushed, pair), count |-> srt.count + 1]

\* the body of the for_each closure on one element: the operations run in
\* order; a put that fails is unwrapped and panics.
\* st is [tables, log, sorters, status]
RECURSIVE exec_ops(_, _)
exec_ops(st, ops) ==
    IF ops = <<>> \/ st.status # "ok" THEN st
    ELSE LET o == Head(ops)
         IN IF o.op = "push"
            THEN exec_ops([st EXCEPT !.sorters[o.target] = sorter_push(@, <<o.key, o.val>>)],
                          Tail(ops))
            ELSE LET ok == append_ok(st.tables[o.target], o.key)
                 IN exec_ops([st EXCEPT
                                 !.tables[o.target] = IF ok THEN Append(@, <<o.key, o.val>>) ELSE @,
                                 !.log = Append(@, PutEvent(o.target, o.key, 0, ok)),
                                 !.status = IF ok THEN "ok" ELSE "panicked"],
                             Tail(ops))

\* insert_sorted_tuples (expand.rs:28-59) on the records yielded by
\* sorted(): every pair is put; an error is printed and the loop goes on
RECURSIVE put_sorted(_, _, _, _)
put_sorted(st, table, pairs, fault) ==
    IF pairs = <<>> THEN st
    ELSE LET p == Head(pairs)
             ok == append_dup_ok(st.tables[table], p[1], p[2]) /\ st.puts + 1 # fault
         IN put_sorted([st EXCEPT
                           !.tables[table] = IF ok THEN Append(@, p) ELSE @,
                           !.log = Append(@, PutEvent(table, p[1], p[2], ok)),
                           !.puts = @ + 1],
                       table, Tail(pairs), fault)

\* mutant: the transaction is committed before the sorters are drained
ProgramOrderCommitFirst ==
    <<"create_db", "begin", "metadata", "stream", "commit",
      "cell_node", "node_way", "node_relation", "way_relation", "relation_relation",
      "remove_dir", "done">>

\* mutant: the scratch directory is removed before the commit
ProgramOrderRemoveDirFirst ==
    <<"create_db", "begin", "metadata", "stream",
      "cell_node", "node_way", "node_relation", "way_relation", "relation_relation",
      "remove_dir", "commit", "done">>

\* mutant: the node_way sorter is drained before the cell_node sorter
ProgramOrderNodeWayFirst ==
    <<"create_db", "begin", "metadata", "stream",
      "node_way", "cell_node", "node_relation", "way_relation", "relation_relation",
      "commit", "remove_dir", "done">>

\* the statements of run in program order (expand.rs:61-308)
ProgramOrder ==
    <<"create_db", "begin", "metadata", "stream",
      "cell_node", "node_way", "node_relation", "way_relation", "relation_relation",
      "commit", "remove_dir", "done">>

Index(seq, x) == CHOOSE i \in 1..Len(seq) : seq[i] = x

next_pc(at) == ProgramOrder[Index(ProgramOrder, at) + 1]

NoRead == [op |-> "none", table |-> "", id |-> 0, region |-> <<>>, status |-> "", val |-> <<>>]

\* before run starts; Sorter::new (sorter.rs:130-156) has created the
\* channel and spawned the worker of the stand-alone sorter
Init ==
    /\ s_pc = "push"
    /\ s_chan = <<>>
    /\ s_txOpen = TRUE
    /\ s_count = 0
    /\ s_pushed = <<>>
    /\ w_pc = "recv"
    /\ w_state = SortWorker_new
    /\ s_segments = <<>>
    /\ s_gen = GenIdle
    /\ pc = "create_db"
    /\ input = <<>>
    /\ tables = EmptyTables
    /\ log = <<>>
    /\ file = [created |-> FALSE, tables |-> EmptyTables]
    /\ tempdir = FALSE
    /\ sorters = [n \in IndexTableSet |-> Sorter_new]
    /\ faults = 0
    /\ r_result = NoRead

\* the runs considered see at most one storage error
FaultAllowed(fault) == fault = 0 \/ faults = 0
FaultCount(fault) == IF fault = 0 THEN faults ELSE faults + 1

\* lines 62-87: the environment is opened and the ten tables are created;
\* create_db runs outside the write transaction, which begins on line 89
create_db ==
    /\ pc = "create_db"
    /\ file' = [created |-> TRUE, tables |-> EmptyTables]
    /\ pc' = next_pc("create_db")
    /\ UNCHANGED <<input, tables, log, tempdir, sorters, faults>>
    /\ UNCHANGED <<sorterVars, r_result>>

\* lines 62-89: opening the environment, creating a table or beginning the
\* write transaction fails and run returns the error
open_error ==
    /\ pc = "create_db"
    /\ pc' = "failed"
    /\ UNCHANGED <<input, tables, log, file, tempdir, sorters, faults>>
    /\ UNCHANGED <<sorterVars, r_result>>

\* lines 89-98: begin_rw_txn, create_dir_all, Sorter::new five times
begin ==
    /\ pc = "begin"
    /\ tempdir' = TRUE
    /\ pc' = next_pc("begin")
    /\ UNCHANGED <<input, tables, log, file, sorters, faults>>
    /\ UNCHANGED <<sorterVars, r_result>>

\* lines 100-135: the header's timestamp (if any) is put twice under the
\* same key, then the file name; an error returns from run
write_metadata(ts, fault) ==
    /\ pc = "metadata"
    /\ FaultAllowed(fault)
    /\ LET keys == (IF ts THEN <<"osmosis_replication_timestamp", "osmosis_replication_timestamp">>
                    ELSE <<>>)
                   \o <<"import_filename">>
           done == IF fault = 0 THEN Len(keys) ELSE fault - 1
           stored == Dedup(SubSeq(keys, 1, done))
       IN /\ fault <= Len(keys)
          /\ log' = log \o [i \in 1..(IF fault = 0 THEN Len(keys) ELSE fault) |->
                              PutEvent("metadata", keys[i], 0, i # fault)]
          /\ tables' = [tables EXCEPT !["metadata"] =
                           [i \in 1..Len(stored) |-> <<stored[i], "bytes">>]]
          /\ pc' = IF fault = 0 THEN next_pc("metadata") ELSE "failed"
    /\ faults' = FaultCount(fault)
    /\ UNCHANGED <<input, file, tempdir, sorters>>
    /\ UNCHANGED <<sorterVars, r_result>>

\* the closure of reader.for_each applied to one element
Handle(elem, ops) ==
    /\ pc = "stream"
    /\ Len(input) < MaxElems
    /\ LET st == exec_ops([tables |-> tables, log |-> log, sorters |-> sorters,
                           status |-> "ok"], ops)
       IN /\ tables' = st.tables
          /\ log' = st.log
          /\ sorters' = st.sorters
          /\ pc' = IF st.status = "ok" THEN "stream" ELSE "panicked"
    /\ input' = Append(input, elem)
    /\ UNCHANGED <<file, tempdir, faults>>
    /\ UNCHANGED <<sorterVars, r_result>>

on_Node(elem) == Handle(elem, node_ops(elem))

on_DenseNode(elem) == Handle(elem, dense_node_ops(elem))

on_Way(elem) ==
    \E order \in Orders(Range(elem.refs)) : Handle(elem, way_ops(elem, order))

on_Relation(elem) ==
    \E on \in Orders(MembersOf(elem, "Node")),
       ow \in Orders(MembersOf(elem, "Way")),
       or \in Orders(MembersOf(elem, "Relation")) :
         Handle(elem, relation_ops(elem, on, ow, or))

\* reader.for_each returns an error (line 291): run returns it
decode_error ==
    /\ pc = "stream"
    /\ pc' = "failed"
    /\ UNCHANGED <<input, tables, log, file, tempdir, sorters, faults>>
    /\ UNCHANGED <<sorterVars, r_result>>

\* reader.for_each returns Ok at the end of the input
end_of_stream ==
    /\ pc = "stream"
    /\ pc' = next_pc("stream")
    /\ UNCHANGED <<input, tables, log, file, tempdir, sorters, faults>>
    /\ UNCHANGED <<sorterVars, r_result>>

\* lines 295-299: insert_sorted_tuples(sorter, &mut txn, table) for the
\* sorter of table `name`: sorted() consumes the sorter, closes the channel,
\* joins the worker and merges its segments
drain(name, fault) ==
    /\ pc = name
    /\ FaultAllowed(fault)
    /\ fault <= Len(sorters[name].pushed)
    /\ LET res == sorted(worker_thread(sorters[name].pushed))
       IN IF res.status = "panicked"
          THEN /\ fault = 0
               /\ pc' = "panicked"
               /\ UNCHANGED <<tables, log>>
          ELSE /\ fault <= Len(res.out)
               /\ LET st == put_sorted([tables |-> tables, log |-> log, puts |-> 0],
                                       name, res.out, fault)
                  IN /\ tables' = st.tables
                     /\ log' = st.log
               /\ pc' = next_pc(name)
    /\ sorters' = [sorters EXCEPT ![name] = Sorter_new]
    /\ faults' = FaultCount(fault)
    /\ UNCHANGED <<input, file, tempdir>>
    /\ UNCHANGED <<sorterVars, r_result>>

\* line 301: txn.commit()?
commit ==
    /\ pc = "commit"
    /\ file' = [created |-> TRUE, tables |-> tables]
    /\ log' = Append(log, CommitEvent)
    /\ pc' = next_pc("commit")
    /\ UNCHANGED <<input, tables, tempdir, sorters, faults>>
    /\ UNCHANGED <<sorterVars, r_result>>

\* line 301: the commit reports a storage error and run returns it
commit_error ==
    /\ pc = "commit"
    /\ faults = 0
    /\ faults' = faults + 1
    /\ pc' = "failed"
    /\ UNCHANGED <<input, tables, log, file, tempdir, sorters>>
    /\ UNCHANGED <<sorterVars, r_result>>

\* line 305: remove_dir_all(&tempdir), then Ok(())
remove_dir ==
    /\ pc = "remove_dir"
    /\ tempdir' = FALSE
    /\ pc' = next_pc("remove_dir")
    /\ UNCHANGED <<input, tables, log, file, sorters, faults>>
    /\ UNCHANGED <<sorterVars, r_result>>

(***************************************************************************)
(* The read API (database.rs) on the committed content of the file.        *)
(***************************************************************************)
\* access.get(table, key): the value stored under the key, or NotFound
access_get(rows, key) ==
    IF \E i \in 1..Len(rows) : rows[i][1] = key
    THEN [ok |-> TRUE, val |-> rows[CHOOSE i \in 1..Len(rows) : rows[i][1] = key][2]]
    ELSE [ok |-> FALSE, val |-> <<>>]

\* ElementTable::get (database.rs:154-162): the arm for NotFound is
\* commented out, every Err reaches unreachable!()
ElementTable_get_result(rows, id) ==
    LET r == access_get(rows, id)
    IN IF r.ok THEN [status |-> "Some", val |-> r.val]
       ELSE [status |-> "panicked", val |-> <<>>]

\* a reader opens the file expand has produced and calls get(id) on one of
\* the four element tables; the model follows one read per run
ElementTable_get(table, id) ==
    /\ pc = "done"
    /\ r_result = NoRead
    /\ LET res == ElementTable_get_result(file.tables[table], id)
       IN r_result' = [op |-> "get", table |-> table, id |-> id, region |-> <<>>,
                       status |-> res.status, val |-> res.val]
    /\ UNCHANGED <<expandVars, sorterVars>>

\* the index cells of the nodes an input can hold
NodeCells == {cell_of(n[2], n[1]) : n \in NodeVariants}

\* the cell unions a Region holds: a cell that is or contains the index cell
\* of a node, of any level up to CELL_INDEX_LEVEL; an index cell without
\* nodes; two index cells in ascending order
Regions ==
    {<<parent(c, l)>> : c \in NodeCells, l \in 0..CELL_INDEX_LEVEL}
      \cup {<<c>> : c \in {lsb_for_level(CELL_INDEX_LEVEL)}}
      \cup {r \in NodeCells \X NodeCells : r[1] < r[2]}

\* cursor.iter_dup_from(start) (lib.rs:149-150): the cursor is set to the
\* first row whose key is not below start; past the end when there is none
iter_dup_from(rows, start) ==
    LET S == {i \in 1..Len(rows) : rows[i][1] >= start}
    IN IF S = {} THEN Len(rows) + 1 ELSE CHOOSE i \in S : \A j \in S : i <= j

\* mutant: the row whose key is child_end is still taken
RECURSIVE take_while_inclusive(_, _, _)
take_while_inclusive(rows, i, end) ==
    IF i > Len(rows) \/ ~(end >= rows[i][1]) THEN <<>>
    ELSE <<rows[i][2]>> \o take_while_inclusive(rows, i + 1, end)

\* .flatten().take_while(|(key, _)| end > key) (lib.rs:151-157): the values
\* of the rows from row i on, up to the first key that is not below end
RECURSIVE take_while(_, _, _)
take_while(rows, i, end) ==
    IF i > Len(rows) \/ ~(end > rows[i][1]) THEN <<>>
    ELSE <<rows[i][2]>> \o take_while(rows, i + 1, end)

\* Transaction::get_node_ids_in_region (lib.rs:138-166): the ids yielded
get_node_ids_in_region_result(rows, region) ==
    Flatten([k \in 1..Len(region) |->
               take_while(rows,
                          iter_dup_from(rows, child_begin_at_level(region[k], CELL_INDEX_LEVEL)),
                          child_end_at_level(region[k], CELL_INDEX_LEVEL))])

\* a reader scans the cell_node table of the file expand has produced
get_node_ids_in_region(region) ==
    /\ pc = "done"
    /\ r_result = NoRead
    /\ r_result' = [op |-> "region", table |-> "cell_node", id |-> 0, region |-> region,
                    status |-> "Ok",
                    val |-> get_node_ids_in_region_result(file.tables["cell_node"], region)]
    /\ UNCHANGED <<expandVars, sorterVars>>

\* mutant: the cursor is put on the first row before the loop, which then
\* starts at the second
cursor_next_after_first(rows, pos) ==
    IF pos + 1 < Len(rows) THEN [ok |-> TRUE, row |-> rows[pos + 2]]
    ELSE [ok |-> FALSE, row |-> <<>>]

\* cursor.next(&access) (database.rs:171) on a cursor that has returned pos
\* rows: the first row when the cursor is fresh, then the row after the
\* current one; an Err (NotFound) past the last row
cursor_next(rows, pos) ==
    IF pos < Len(rows) THEN [ok |-> TRUE, row |-> rows[pos + 1]]
    ELSE [ok |-> FALSE, row |-> <<>>]

\* the loop of ElementTable::iter (database.rs:171-176): <<id, elem>> for
\* every row cursor.next returns, until it returns Err
RECURSIVE ElementTable_iter_result(_, _)
ElementTable_iter_result(rows, pos) ==
    LET r == cursor_next(rows, pos)
    IN IF r.ok THEN <<<<r.row[1], r.row[2]>>>> \o ElementTable_iter_result(rows, pos + 1)
       ELSE <<>>

\* a reader consumes ElementTable::iter (database.rs:164-179) on one of the
\* four element tables, as examples/most_tags_seq.rs does
ElementTable_iter(table) ==
    /\ pc = "done"
    /\ r_result = NoRead
    /\ r_result' = [op |-> "iter", table |-> table, id |-> 0, region |-> <<>>,
                    status |-> "Ok",
                    val |-> ElementTable_iter_result(file.tables[table], 0)]
    /\ UNCHANGED <<expandVars, sorterVars>>

\* mutant: the iterator runs on with MDB_NEXT, across the keys that follow
RECURSIVE next_any(_, _, _)
next_any(rows, i, key) ==
    IF i > Len(rows) THEN <<>>
    ELSE <<rows[i][2]>> \o next_any(rows, i + 1, key)

\* the Iter of iter_dup_of: MDB_GET_CURRENT, then MDB_NEXT_DUP until the
\* duplicates of the key are exhausted
RECURSIVE next_dup(_, _, _)
next_dup(rows, i, key) ==
    IF i > Len(rows) \/ rows[i][1] # key THEN <<>>
    ELSE <<rows[i][2]>> \o next_dup(rows, i + 1, key)

\* cursor.iter_dup_of(key) (lib.rs:119): MDB_SET puts the cursor on the
\* first duplicate of the key, or fails with NotFound
iter_dup_of(rows, key) ==
    LET S == {i \in 1..Len(rows) : rows[i][1] = key}
    IN IF S = {} THEN [status |-> "NotFound", val |-> <<>>]
       ELSE [status |-> "Ok",
             val |-> next_dup(rows, CHOOSE i \in S : \A j \in S : i <= j, key)]

\* Transaction::get_ways_for_node (lib.rs:113-136): NotFound becomes None
\* and the generator yields nothing
get_ways_for_node_result(rows, id) ==
    LET result == iter_dup_of(rows, id)
    IN [status |-> "Ok", val |-> IF result.status = "Ok" THEN result.val ELSE <<>>]

\* a reader looks up the ways of a node in node_way
get_ways_for_node(id) ==
    /\ pc = "done"
    /\ r_result = NoRead
    /\ LET res == get_ways_for_node_result(file.tables["node_way"], id)
       IN r_result' = [op |-> "join", table |-> "node_way", id |-> id, region |-> <<>>,
                       status |-> res.status, val |-> res.val]
    /\ UNCHANGED <<expandVars, sorterVars>>

\* the four join tables (IndexTables without the spatial index)
JoinTables == {IndexTables[i] : i \in 2..Len(IndexTables)}

\* JoinTable::get (database.rs:257-279): the same lookup on any of the join
\* tables
JoinTable_get(table, id) ==
    /\ pc = "done"
    /\ r_result = NoRead
    /\ LET result == iter_dup_of(file.tables[table], id)
       IN r_result' = [op |-> "join", table |-> table, id |-> id, region |-> <<>>,
                       status |-> "Ok",
                       val |-> IF result.status = "Ok" THEN result.val ELSE <<>>]
    /\ UNCHANGED <<expandVars, sorterVars>>

\* a reader gets a way from the ways table and asks whether it is closed
is_closed(id) ==
    /\ pc = "done"
    /\ r_result = NoRead
    /\ LET res == ElementTable_get_result(file.tables["ways"], id)
       IN /\ res.status = "Some"
          /\ r_result' = [op |-> "is_closed", table |-> "ways", id |-> id, region |-> <<>>,
                          status |-> "Ok", val |-> <<Way_is_closed(res.val)>>]
    /\ UNCHANGED <<expandVars, sorterVars>>

(***************************************************************************)
(* The read interface on a database file of any content: the reads are      *)
(* functions of the file alone, so the files are drawn from the tables an  *)
(* import can write, rows in ascending order and distinct, with one table  *)
(* filled at a time.                                                       *)
(***************************************************************************)
MaxRows == 3

\* the ascending sequences of at most n distinct rows drawn from U
RECURSIVE AscendingRows(_, _)
AscendingRows(U, n) ==
    IF n = 0 THEN {<<>>}
    ELSE {<<>>} \cup UNION {{<<x>> \o r : r \in AscendingRows({y \in U : PairLess(x, y)}, n - 1)} : x \in U}

\* for the cells of the regions: the first index cell within each, the
\* last one, and the one that follows it
ReadCells ==
    LET step == 2 * lsb_for_level(CELL_INDEX_LEVEL)
        ends(c) == {child_begin_at_level(c, CELL_INDEX_LEVEL),
                    child_end_at_level(c, CELL_INDEX_LEVEL) - step,
                    child_end_at_level(c, CELL_INDEX_LEVEL)}
    IN {k \in UNION {UNION {ends(r[i]) : i \in DOMAIN r} : r \in Regions} : k < 2 * lsb_for_level(0)}

\* the value stored for an element (expand.rs:144-259)
StoredElement(table) ==
    CASE table = "locations" -> LocationBuilder_build(0, 0, 1)
      [] table = "nodes" -> write_node(NodeBuilder_set_tags(node_init_root, flat_tags(Tags)))
      [] table = "ways" ->
            write_way(WayBuilder_set_nodes(WayBuilder_set_tags(way_init_root, flat_tags(Tags)),
                                           <<1, 1>>))
      [] table = "relations" ->
            write_relation(RelationBuilder_set_members(
                RelationBuilder_set_tags(relation_init_root, flat_tags(Tags)),
                <<Member("Node", 1, "from")>>))

\* the longest list of node refs of a stored way
MaxRefs == 4

\* the lists of at most n node refs
RECURSIVE RefLists(_)
RefLists(n) ==
    IF n = 0 THEN {<<>>}
    ELSE {<<>>} \cup {<<x>> \o r : x \in 1..MaxKey, r \in RefLists(n - 1)}

\* the record of a way as the Way handler builds it (expand.rs:207-213)
StoredWay(tags, refs) ==
    write_way(WayBuilder_set_nodes(WayBuilder_set_tags(way_init_root, flat_tags(tags)), refs))

ReadDatabases ==
    {[EmptyTables EXCEPT !["cell_node"] = rows] :
        rows \in AscendingRows(ReadCells \X (1..MaxKey), MaxRows)}
    \cup {[EmptyTables EXCEPT ![t] = rows] :
        t \in JoinTables, rows \in AscendingRows(Records, MaxRows)}
    \cup {[EmptyTables EXCEPT ![t] = [i \in 1..Len(rows) |-> <<rows[i][1], StoredElement(t)>>]] :
        t \in ElementTables, rows \in AscendingRows((1..(MaxKey + 1)) \X {0}, MaxRows)}
    \cup {[EmptyTables EXCEPT !["ways"] = <<<<1, StoredWay(tags, refs)>>>>] :
        tags \in {<<>>, Tags}, refs \in RefLists(MaxRefs)}

\* Database::open and Transaction::begin on a committed file
InitRead ==
    /\ s_pc = "push"
    /\ s_chan = <<>>
    /\ s_txOpen = TRUE
    /\ s_count = 0
    /\ s_pushed = <<>>
    /\ w_pc = "recv"
    /\ w_state = SortWorker_new
    /\ s_segments = <<>>
    /\ s_gen = GenIdle
    /\ pc = "done"
    /\ input = <<>>
    /\ log = <<>>
    /\ \E db \in ReadDatabases :
          /\ tables = db
          /\ file = [created |-> TRUE, tables |-> db]
    /\ tempdir = FALSE
    /\ sorters = [n \in IndexTableSet |-> Sorter_new]
    /\ faults = 0
    /\ r_result = NoRead

ReadNext ==
    \/ \E table \in ElementTables, id \in 1..(MaxKey + 1) : ElementTable_get(table, id)
    \/ \E table \in ElementTables : ElementTable_iter(table)
    \/ \E region \in Regions : get_node_ids_in_region(region)
    \/ \E id \in 1..(MaxKey + 1) : get_ways_for_node(id)
    \/ \E table \in JoinTables, id \in 1..(MaxKey + 1) : JoinTable_get(table, id)
    \/ \E id \in 1..(MaxKey + 1) : is_closed(id)

(***************************************************************************)
(* stat (stat.rs:26-74).  Sizes in bytes are counted in units of 256       *)
(* bytes, of which a u32 holds 2^24: the page size, the KiB and the map    *)
(* size are multiples of the unit, so the arithmetic is that of the        *)
(* program.  The content of a table is represented by the MDB_stat that    *)
(* mdb_stat returns for it.                                                *)
(***************************************************************************)
SIZE_UNIT == 256

\* the number of values of a u32 that counts bytes, in units
U32_MODULUS == 2 ^ 24

\* ms_psize: the page size of the environment, 4096 bytes
PSIZE == 4096 \div SIZE_UNIT

\* the divisor of line 65
KIB == 1024 \div SIZE_UNIT

\* set_map_size(50 * 1024 * 1024 * 1024) (line 34), in pages
MAP_PAGES == (50 * 1024 * 1024 * (1024 \div SIZE_UNIT)) \div PSIZE

\* lines 7-17
TABLE_NAMES ==
    <<"locations", "nodes", "ways", "relations", "cell_node", "node_way",
      "node_relation", "way_relation", "relation_relation">>

\* page counts of a table: none, a few, and around the number of pages
\* that make 4 GiB
PageCounts == {0, 1, 3, 2 ^ 20 - 3, 2 ^ 20, 3 * 2 ^ 20}

\* what mdb_stat can return for a table that fits the map: a tree with
\* leaves has no more branch pages than leaf pages
MDB_stats ==
    {[ms_psize |-> PSIZE, ms_branch_pages |-> b, ms_leaf_pages |-> l,
      ms_overflow_pages |-> o, ms_entries |-> 2 * l] :
        b \in {x \in PageCounts : x <= 3}, l \in PageCounts, o \in PageCounts}

\* mutant: the size is computed in 64 bits
size_of_u64(stat, total_pages) ==
    [overflow |-> FALSE, size |-> stat.ms_psize * total_pages]

\* `as u32` on a page count: the count modulo 2^32
as_u32(n) == n - ((n \div 65536) \div 65536) * 65536 * 65536

\* line 59: stat.ms_psize * total_pages as u32
size_of(stat, total_pages) ==
    LET product == stat.ms_psize * as_u32(total_pages)
    IN [overflow |-> product >= U32_MODULUS, size |-> product % U32_MODULUS]

\* lines 58-70: the row printed for a table, or the panic of the
\* multiplication when the build checks for overflow and it overflows
stat_row_result(name, stat, overflow_checks) ==
    LET total_pages == stat.ms_leaf_pages + stat.ms_branch_pages + stat.ms_overflow_pages
        size == size_of(stat, total_pages)
    IN IF size.overflow /\ overflow_checks
       THEN [status |-> "panicked", val |-> <<>>]
       ELSE [status |-> "Ok",
             val |-> <<stat.ms_entries, size.size \div KIB, total_pages,
                       stat.ms_branch_pages, stat.ms_leaf_pages, stat.ms_overflow_pages>>]

\* one iteration of the loop of lines 41-71: r_result holds the row printed
\* last and the number of rows so far
stat_row(stat, overflow_checks) ==
    /\ pc = "done"
    /\ \/ r_result = NoRead
       \/ r_result.op = "stat" /\ r_result.status = "Ok" /\ r_result.id < Len(TABLE_NAMES)
    /\ stat.ms_leaf_pages + stat.ms_branch_pages + stat.ms_overflow_pages <= MAP_PAGES
    /\ stat.ms_leaf_pages = 0 => stat.ms_branch_pages = 0
    /\ LET res == stat_row_result(TABLE_NAMES[r_result.id + 1], stat, overflow_checks)
       IN r_result' = [op |-> "stat", table |-> TABLE_NAMES[r_result.id + 1],
                       id |-> r_result.id + 1, region |-> <<>>,
                       status |-> res.status, val |-> res.val]
    /\ UNCHANGED <<expandVars, sorterVars>>

StatNext == \E stat \in MDB_stats, overflow_checks \in BOOLEAN : stat_row(stat, overflow_checks)

\* Environment::open on a committed file (lines 27-35)
InitStat ==
    /\ s_pc = "push"
    /\ s_chan = <<>>
    /\ s_txOpen = TRUE
    /\ s_count = 0
    /\ s_pushed = <<>>
    /\ w_pc = "recv"
    /\ w_state = SortWorker_new
    /\ s_segments = <<>>
    /\ s_gen = GenIdle
    /\ pc = "done"
    /\ input = <<>>
    /\ log = <<>>
    /\ tables = EmptyTables
    /\ file = [created |-> TRUE, tables |-> EmptyTables]
    /\ tempdir = FALSE
    /\ sorters = [n \in IndexTableSet |-> Sorter_new]
    /\ faults = 0
    /\ r_result = NoRead

\* stat on a committed file
SpecStat == InitStat /\ [][StatNext]_vars

ExpandNext ==
    \/ create_db
    \/ open_error
    \/ begin
    \/ \E ts \in BOOLEAN, fault \in 0..3 : write_metadata(ts, fault)
    \/ \E elem \in NodeElems("Node") : on_Node(elem)
    \/ \E elem \in NodeElems("DenseNode") : on_DenseNode(elem)
    \/ \E elem \in WayElems : on_Way(elem)
    \/ \E elem \in RelationElems : on_Relation(elem)
    \/ decode_error
    \/ end_of_stream
    \/ \E i \in 1..Len(IndexTables), fault \in 0..(MaxElems * 3) : drain(IndexTables[i], fault)
    \/ commit
    \/ commit_error
    \/ remove_dir
    \/ \E table \in ElementTables, id \in 1..MaxElems : ElementTable_get(table, id)
    \/ \E region \in Regions : get_node_ids_in_region(region)

SorterNext ==
    \/ \E val \in Records : Sorter_push(val)
    \/ Sorter_sorted_drop
    \/ Sorter_sorted_join
    \/ Reader_seed
    \/ Reader_step
    \/ Reader_seed_decode_error
    \/ Reader_step_decode_error
    \/ Worker_recv
    \/ Worker_close
    \/ Worker_recv_flush_error
    \/ Worker_close_flush_error

\* the stand-alone sorter
SpecSorter ==
    Init /\ [][SorterNext]_vars

\* reads of a database file
SpecRead == InitRead /\ [][ReadNext]_vars

\* one run of expand, followed by reads of the file it produced
Spec == Init /\ [][ExpandNext]_vars


(***************************************************************************)
(* Properties.                                                             *)
(***************************************************************************)
\* ascending order of (k, v) pairs: by k, then by v
LexLess(a, b) == a[1] < b[1] \/ (a[1] = b[1] /\ a[2] < b[2])

RECURSIVE Ascending(_)
Ascending(S) ==
    IF S = {} THEN <<>>
    ELSE LET m == CHOOSE x \in S : \A y \in S : y = x \/ LexLess(x, y)
         IN <<m>> \o Ascending(S \ {m})

Occurrences(seq, x) == Cardinality({i \in 1..Len(seq) : seq[i] = x})

\* the foreground has consumed the iterator to its end, or has panicked
SorterEnded == s_pc \in {"done", "panicked"}

\* C1: for every multiset of pushed records, of any size relative to
\* MAX_CACHE_SIZE, sorted() yields exactly the distinct pushed records in
\* ascending order.
C1_SortedIsAscendingDistinct ==
    SorterEnded => s_pc = "done" /\ s_gen.out = Ascending(Range(s_pushed))

\* C2: a record pushed any positive number of times appears exactly once in
\* the output of sorted().
C2_DuplicatePushesYieldOne ==
    SorterEnded => \A x \in Range(s_pushed) : Occurrences(s_gen.out, x) = 1

PutsTo(t) == SelectSeq(log, LAMBDA e : e.op = "put" /\ e.table = t)

IsCommit(e) == e.op = "commit"
IsElementPut(e) == e.op = "put" /\ e.table \in ElementTables
IsIndexPut(e) == e.op = "put" /\ e.table \in IndexTableSet

\* C3: for each index table the put(APPEND_DUP, k, v) calls have k
\* non-decreasing and, within one k, v strictly increasing.
C3_IndexPutsAscending ==
    \A t \in IndexTableSet :
        LET p == PutsTo(t)
        IN \A i \in 1..(Len(p) - 1) :
              \/ p[i].key < p[i + 1].key
              \/ p[i].key = p[i + 1].key /\ p[i].val < p[i + 1].val

\* an index table has received pairs from two segments, two of them under
\* the same key
C3_Witness ==
    \E t \in IndexTableSet :
        /\ Len(PutsTo(t)) >= 3
        /\ \E i \in 1..(Len(PutsTo(t)) - 1) : PutsTo(t)[i].key = PutsTo(t)[i + 1].key

SameKind(a, b) == a.kind = b.kind \/ (a.kind \in NodeKinds /\ b.kind \in NodeKinds)

\* the ids of the input are strictly increasing per kind
StrictlyIncreasingIds ==
    \A i, j \in 1..Len(input) :
        i < j /\ SameKind(input[i], input[j]) => input[i].id < input[j].id

\* C4: when the ids of the input are strictly increasing per kind, the
\* put(APPEND) calls into each primary table are strictly ascending by key.
C4_PrimaryPutsAscending ==
    StrictlyIncreasingIds =>
        \A t \in ElementTables :
            \A i \in 1..(Len(PutsTo(t)) - 1) : PutsTo(t)[i].key < PutsTo(t)[i + 1].key

\* two nodes were put into locations, only the second into nodes, then a way
C4_Witness ==
    /\ StrictlyIncreasingIds
    /\ Len(PutsTo("locations")) = 2
    /\ Len(PutsTo("nodes")) = 1
    /\ PutsTo("nodes")[1].key = 2
    /\ Len(PutsTo("ways")) = 1

\* C5: every put into an element table precedes the first put into an index
\* table.
C5_ElementPutsBeforeIndexPuts ==
    \A i \in 1..Len(log) :
        IsIndexPut(log[i]) => \A j \in 1..Len(log) : IsElementPut(log[j]) => j < i

\* element tables and index tables have both been written
C5_Witness ==
    /\ \E i \in 1..Len(log) : IsElementPut(log[i]) /\ log[i].table = "ways"
    /\ \E i \in 1..Len(log) : IsIndexPut(log[i]) /\ log[i].table = "node_way"

Committed == \E i \in 1..Len(log) : IsCommit(log[i])

\* the run has stopped with an error or a panic
Stopped == pc \in {"failed", "panicked"}

\* the run has stopped before it created the scratch directory
StoppedBeforeBegin == pc = "failed" /\ log = <<>>

OneCommitAfterAllPuts ==
    /\ Cardinality({i \in 1..Len(log) : IsCommit(log[i])}) <= 1
    /\ \A i \in 1..Len(log) : IsCommit(log[i]) => i = Len(log)
    /\ Committed => file.tables = tables /\ pc \in {"remove_dir", "done"}
    /\ pc = "done" => Committed

C7_FailedPutEndsRun ==
    \A i \in 1..Len(log) :
        log[i].op = "put" /\ ~log[i].ok =>
            i = Len(log) /\ pc \in {"panicked", "failed"}

InputElems(kinds, id) == {i \in 1..Len(input) : input[i].kind \in kinds /\ input[i].id = id}

InputElem(kinds, id) == input[CHOOSE i \in InputElems(kinds, id) : TRUE]

HasRow(table, id) == \E i \in 1..Len(file.tables[table]) : file.tables[table][i][1] = id

\* C8: ElementTable::get(id) is None for an id without entry and Some(record)
\* for an id with one.
C8_GetAbsentIsNone ==
    r_result.op = "get" =>
        IF HasRow(r_result.table, r_result.id)
        THEN r_result.status = "Some"
        ELSE r_result.status = "None"

\* C9: the lon and lat read back from the stored location are
\* round(lon * 1e7) / 1e7 and round(lat * 1e7) / 1e7.
C9_LocationRoundTrip ==
    r_result.op = "get" /\ r_result.table = "locations" /\ r_result.status = "Some" =>
        LET n == InputElem(NodeKinds, r_result.id)
        IN /\ Location_lon(r_result.val) = Round(n.lon, DegSub)
           /\ Location_lat(r_result.val) = Round(n.lat, DegSub)

HasDuplicate(seq) == \E i, j \in 1..Len(seq) : i < j /\ seq[i] = seq[j]

C11_WayTagsPreserved ==
    r_result.op = "get" /\ r_result.table = "ways" /\ r_result.status = "Some" =>
        Way_tags(r_result.val) = InputElem({"Way"}, r_result.id).tags

\* the keys looked up with tag(key); the last one is on no element
TagKeys == {"amenity", "name", "highway"}

\* the value of the first pair of `tags` whose key is `key`, None without one
FirstValue(tags, key) ==
    LET S == {i \in 1..Len(tags) : tags[i][1] = key}
    IN IF S = {} THEN None ELSE Some(tags[CHOOSE i \in S : \A j \in S : i <= j][2])

\* C12: for every tagged input node, Node::tags() on the stored record is the
\* node's sequence of (key, value) pairs, and Node::tag(key) is the value of
\* the first pair with that key, or None when no pair has it.
C12_NodeTagsRoundTrip ==
    r_result.op = "get" /\ r_result.table = "nodes" /\ r_result.status = "Some" =>
        LET n == InputElem(NodeKinds, r_result.id)
        IN /\ Node_tags(r_result.val) = n.tags
           /\ \A key \in TagKeys : Node_tag(r_result.val, key) = FirstValue(n.tags, key)

\* a node whose tags repeat a key was read back: tag() finds the first value
\* of the repeated key and nothing for a key the node does not have
C12_Witness ==
    /\ r_result.op = "get" /\ r_result.table = "nodes" /\ r_result.status = "Some"
    /\ Len(Node_tags(r_result.val)) = 3
    /\ Node_tag(r_result.val, "name") = Some("x")
    /\ Node_tag(r_result.val, "highway") = None

\* C13: Relation::members() on the stored record yields the members of the
\* input relation in their order, duplicates kept, each with its kind, id and
\* role, and the tags set before set_members are still in the record.
C13_RelationRoundTrip ==
    r_result.op = "get" /\ r_result.table = "relations" /\ r_result.status = "Some" =>
        LET r == InputElem({"Relation"}, r_result.id)
        IN /\ Relation_members(r_result.val) = r.members
           /\ Relation_tags(r_result.val) = r.tags

\* a tagged relation with a repeated member and members of all three kinds
\* was read back
C13_Witness ==
    /\ r_result.op = "get" /\ r_result.table = "relations" /\ r_result.status = "Some"
    /\ Relation_tags(r_result.val) # <<>>
    /\ HasDuplicate(Relation_members(r_result.val))
    /\ {Relation_members(r_result.val)[i].type : i \in 1..Len(Relation_members(r_result.val))}
         = {"Node", "Way", "Relation"}

\* reader.for_each has returned Ok: every element of the input was handled
AfterStream == pc \in IndexTableSet \cup {"commit", "remove_dir", "done"}

PutCount(t, id) == Cardinality({i \in 1..Len(log) : log[i].op = "put" /\ log[i].table = t /\ log[i].key = id})

\* C14: after the input is read, locations has received exactly one put for
\* every input node id, tagged or not, and nodes has received a put for an id
\* if and only if the input node with that id has at least one tag.
C14_LocationsAllNodesTaggedOnly ==
    AfterStream =>
        \A id \in 1..MaxElems :
            LET present == InputElems(NodeKinds, id) # {}
                tagged == present /\ InputElem(NodeKinds, id).tags # <<>>
            IN /\ PutCount("locations", id) = (IF present THEN 1 ELSE 0)
               /\ PutCount("nodes", id) = (IF tagged THEN 1 ELSE 0)

\* a tagged node and an untagged node were ingested
C14_Witness ==
    /\ AfterStream
    /\ \E i, j \in 1..Len(input) :
          /\ input[i].kind \in NodeKinds /\ input[i].tags # <<>>
          /\ input[j].kind \in NodeKinds /\ input[j].tags = <<>>
    /\ Len(PutsTo("locations")) = 2
    /\ Len(PutsTo("nodes")) = 1

\* the pairs (n, W.id) of the input: every way W with every node id n it refers to
NodeWayPairs ==
    UNION {{<<n, input[i].id>> : n \in Range(input[i].refs)} :
             i \in {j \in 1..Len(input) : input[j].kind = "Way"}}

\* C15: after a successful ingest node_way holds the pair (n, W.id) exactly
\* once for every way W and every node id n among its refs, and no other
\* pair.
C15_NodeWayContent ==
    pc = "done" =>
        /\ Range(file.tables["node_way"]) = NodeWayPairs
        /\ ~HasDuplicate(file.tables["node_way"])

\* the pairs (id, R.id) of the input: every relation R with every member of
\* the given kind
MemberPairs(type) ==
    UNION {{<<ref, input[i].id>> : ref \in MembersOf(input[i], type)} :
             i \in {j \in 1..Len(input) : input[j].kind = "Relation"}}

JoinTableOf(type) ==
    CASE type = "Node" -> "node_relation"
      [] type = "Way" -> "way_relation"
      [] type = "Relation" -> "relation_relation"

\* C16: after a successful ingest the join table of each kind holds the pair
\* (id, R.id) exactly once for every relation R and every distinct member id
\* of that kind, and holds no pair of a member of another kind.
C16_JoinTablesContent ==
    pc = "done" =>
        \A type \in {"Node", "Way", "Relation"} :
            /\ Range(file.tables[JoinTableOf(type)]) = MemberPairs(type)
            /\ ~HasDuplicate(file.tables[JoinTableOf(type)])

\* CellID::contains: x is c or a descendant of c
cell_contains(c, x) == c - (lsb(c) - 1) <= x - (lsb(x) - 1) /\ x + (lsb(x) - 1) <= c + (lsb(c) - 1)

\* C17: the region scan over the cell_node table of the file has no false
\* negatives: every input node whose index cell is contained in a cell of
\* the region is among the ids yielded.
C17_RegionScanNoFalseNegatives ==
    r_result.op = "region" =>
        \A i \in 1..Len(input) :
            /\ input[i].kind \in NodeKinds
            /\ \E k \in 1..Len(r_result.region) :
                  cell_contains(r_result.region[k], cell_of(input[i].lat, input[i].lon))
            => input[i].id \in Range(r_result.val)

\* C18: a run on a finite input with strictly increasing ids per kind and
\* without I/O failure reaches the commit and returns success, also when
\* some index receives no pairs; in particular such a run never panics.
C18_ValidInputReachesCommit ==
    StrictlyIncreasingIds /\ faults = 0 => pc # "panicked"

\* the element table that receives the first put of an element
FirstTableOf(kind) ==
    CASE kind \in NodeKinds -> "locations"
      [] kind = "Way" -> "ways"
      [] kind = "Relation" -> "relations"

\* element j of the input carries an id that is not greater than the id of an
\* earlier element of its kind
NotIncreasingAt(j) ==
    \E i \in 1..(j - 1) : SameKind(input[i], input[j]) /\ input[j].id <= input[i].id

\* C19: when the input delivers an id that is not greater than the previous
\* id of its kind, the APPEND put for it fails, the run aborts at that
\* element, no later element is written and nothing is committed.
C19_NonIncreasingIdAborts ==
    \A j \in 1..Len(input) :
        NotIncreasingAt(j) =>
            /\ j = Len(input)
            /\ pc = "panicked"
            /\ ~Committed
            /\ log # <<>>
            /\ LET e == log[Len(log)]
               IN e.op = "put" /\ ~e.ok /\ e.key = input[j].id
                  /\ e.table = FirstTableOf(input[j].kind)

\* a way repeated the id of the way before it and the run has panicked at
\* the put into ways
C19_Witness ==
    /\ pc = "panicked"
    /\ Len(input) >= 2
    /\ input[Len(input)].kind = "Way"
    /\ NotIncreasingAt(Len(input))
    /\ ~log[Len(log)].ok

\* the scratch directory has been created
ScratchCreated == pc \notin {"create_db", "begin"} /\ ~StoppedBeforeBegin

C21_ChannelBounded == Len(s_chan) < MaxPush

\* the steps of the foreground thread
Foreground ==
    \/ \E val \in Records : Sorter_push(val)
    \/ Sorter_sorted_drop
    \/ Sorter_sorted_join
    \/ Reader_seed
    \/ Reader_step

\* C22: while it streams, the foreground thread never waits for the worker:
\* a push (and the close that ends the stream) can be taken whatever the
\* worker has received or spilled, and the one point at which the
\* foreground cannot move is the join inside sorted(), until the worker
\* thread has ended.
C22_PushNeverWaits ==
    /\ s_pc = "push" /\ s_count < MaxPush
          => ENABLED (\E val \in Records : Sorter_push(val))
    /\ s_pc = "push" => ENABLED Sorter_sorted_drop
    /\ ~SorterEnded /\ ~(ENABLED Foreground)
          => s_pc = "join" /\ w_pc = "recv"

\* a push is made while the worker is three records behind, having spilled
\* nothing yet
C22_Witness ==
    /\ s_pc = "push"
    /\ Len(s_chan) >= 3
    /\ s_count = Len(s_chan) + 1
    /\ w_pc = "recv"

\* C23: a read error in a segment that still holds records never ends the
\* merge as if the segment were exhausted: when sorted() completes, every
\* pushed record has been yielded.
C23_DecodeErrorNeverTruncates ==
    s_pc = "done" => Range(s_gen.out) = Range(s_pushed)

\* C24: once the worker has failed while spilling, the foreground thread
\* never gets past the join of sorted(): it is still pushing or joining, or
\* it has panicked, and the merge has not yielded a single record.
C24_WorkerFailureEndsRun ==
    w_pc = "panicked" =>
        /\ s_pc \in {"push", "join", "panicked"}
        /\ s_gen = GenIdle
        /\ s_segments = <<>>

\* the worker failed on a spill after a segment had been written, and the
\* foreground met the failure
C24_Witness ==
    /\ w_pc = "panicked"
    /\ s_pc = "panicked"
    /\ Len(w_state.segments) >= 1

\* C29: when the final flush writes an empty segment (nothing was pushed,
\* or a multiple of MAX_CACHE_SIZE records), sorted() still completes and
\* yields the distinct pushed records in ascending order.
C29_EmptyFinalSegmentCompletes ==
    /\ s_pc \in {"seed", "merge", "done", "panicked"}
    /\ w_pc = "returned"
    /\ Len(s_pushed) % MAX_CACHE_SIZE = 0
    => /\ s_pc # "panicked"
       /\ s_pc = "done" => s_gen.out = Ascending(Range(s_pushed))

\* C30: the worker's buffer never holds more than MAX_CACHE_SIZE records
\* and is spilled, and left empty, as soon as it holds that many; after n
\* pushes and the close there are (n \div MAX_CACHE_SIZE) + 1 segments, each
\* but the last of MAX_CACHE_SIZE records and the last of
\* n % MAX_CACHE_SIZE records.
C30_SegmentSizes ==
    /\ Len(w_state.cache) < MAX_CACHE_SIZE
    /\ w_pc = "recv" =>
          /\ Len(w_state.segments) = w_state.count \div MAX_CACHE_SIZE
          /\ Len(w_state.cache) = w_state.count % MAX_CACHE_SIZE
          /\ \A i \in 1..Len(w_state.segments) :
                Len(w_state.segments[i]) = MAX_CACHE_SIZE
    /\ w_pc = "returned" =>
          LET n == Len(s_pushed)
              segs == w_state.segments
          IN /\ w_state.count = n
             /\ w_state.cache = <<>>
             /\ Len(segs) = (n \div MAX_CACHE_SIZE) + 1
             /\ \A i \in 1..(Len(segs) - 1) : Len(segs[i]) = MAX_CACHE_SIZE
             /\ Len(segs[Len(segs)]) = n % MAX_CACHE_SIZE

\* the worker has returned after a full segment and a last segment that is
\* neither full nor empty
C30_Witness ==
    /\ w_pc = "returned"
    /\ Len(w_state.segments) >= 2
    /\ w_state.segments[Len(w_state.segments)] # <<>>

\* the values of the rows of a table that satisfy Test, in table order
ValuesWhere(rows, Test(_)) ==
    LET sel == SelectSeq(rows, Test)
    IN [i \in 1..Len(sel) |-> sel[i][2]]

StrictlyAscendingInts(seq) == \A i, j \in 1..Len(seq) : i < j => seq[i] < seq[j]

C26_IterYieldsEveryRowAscending ==
    r_result.op = "iter" =>
        LET rows == file.tables[r_result.table]
        IN /\ Len(r_result.val) = Len(rows)
           /\ \A i \in 1..Len(rows) : r_result.val[i] = <<rows[i][1], rows[i][2]>>
           /\ StrictlyAscendingInts([i \in 1..Len(r_result.val) |-> r_result.val[i][1]])

\* a table of three entries has been iterated
C26_Witness ==
    /\ r_result.op = "iter"
    /\ Len(r_result.val) >= 3

\* C28: for each cell c of the cover, in order, the region scan yields the
\* value of every cell_node row whose key is in
\* [child_begin(c), child_end(c)) at the index level, in table order, and
\* of no other row; a key equal to child_end(c) is not in the range.
C28_RegionScanHalfOpenRange ==
    r_result.op = "region" =>
        LET rows == file.tables["cell_node"]
            region == r_result.region
            InCell(k) ==
                LET first == child_begin_at_level(region[k], CELL_INDEX_LEVEL)
                    bound == child_end_at_level(region[k], CELL_INDEX_LEVEL)
                IN ValuesWhere(rows, LAMBDA row : first <= row[1] /\ row[1] < bound)
        IN r_result.val = Flatten([k \in 1..Len(region) |-> InCell(k)])

\* the table holds a row inside the range of the cell and a row whose key
\* is child_end of the cell
C28_Witness ==
    /\ r_result.op = "region"
    /\ Len(r_result.region) = 1
    /\ Len(r_result.val) >= 1
    /\ \E i \in 1..Len(file.tables["cell_node"]) :
          file.tables["cell_node"][i][1]
             = child_end_at_level(r_result.region[1], CELL_INDEX_LEVEL)

\* the pairs (cell, id) of the nodes of the input
CellNodePairs ==
    {<<cell_of(input[i].lat, input[i].lon), input[i].id>> :
        i \in {j \in 1..Len(input) : input[j].kind \in NodeKinds}}

\* the pairs the input gives to the sorter of an index
PairsPushedTo(t) ==
    CASE t = "cell_node" -> CellNodePairs
      [] t = "node_way" -> NodeWayPairs
      [] t = "node_relation" -> MemberPairs("Node")
      [] t = "way_relation" -> MemberPairs("Way")
      [] t = "relation_relation" -> MemberPairs("Relation")

\* C27: the five sorters are drained in the order cell_node, node_way,
\* node_relation, way_relation, relation_relation: the puts into the index
\* tables follow that order, a sorter that has not been closed yet still
\* holds its records while no put has been made into its table or a later
\* one, and every pair put into an index table was pushed to the sorter of
\* that table.
C27_SortersDrainedInOrder ==
    LET puts == SelectSeq(log, IsIndexPut)
        at == [t \in IndexTableSet |-> Index(IndexTables, t)]
        used == {puts[i].table : i \in 1..Len(puts)}
    IN /\ \A i \in 1..(Len(puts) - 1) : at[puts[i].table] <= at[puts[i + 1].table]
       /\ \A t \in IndexTableSet :
             sorters[t].pushed # <<>> => \A u \in used : at[u] < at[t]
       /\ pc \in IndexTableSet =>
             \A t \in IndexTableSet :
                IF at[t] < at[pc] THEN sorters[t] = Sorter_new
                ELSE Range(sorters[t].pushed) = PairsPushedTo(t)
       /\ \A t \in used :
             LET pushed == PairsPushedTo(t)
             IN \A i \in 1..Len(puts) :
                   puts[i].table = t => <<puts[i].key, puts[i].val>> \in pushed

\* three sorters have been drained into their tables, the fourth is next
C27_Witness ==
    /\ pc = "way_relation"
    /\ PutsTo("cell_node") # <<>>
    /\ PutsTo("node_way") # <<>>
    /\ PutsTo("node_relation") # <<>>
    /\ sorters["way_relation"].pushed # <<>>

\* the node refs of the way on which is_closed was called
ClosedRefs == Way_nodes(access_get(file.tables["ways"], r_result.id).val)

\* C31: for a way with at least two node refs, is_closed() is true exactly
\* when the first node id equals the last one, whatever the ids in between.
C31_IsClosedFirstEqualsLast ==
    r_result.op = "is_closed" /\ Len(ClosedRefs) >= 2 =>
        (r_result.val[1] <=> ClosedRefs[1] = ClosedRefs[Len(ClosedRefs)])

\* a closed way of four refs whose second ref differs from the first
C31_Witness ==
    /\ r_result.op = "is_closed"
    /\ Len(ClosedRefs) >= 4
    /\ ClosedRefs[2] # ClosedRefs[1]
    /\ r_result.val[1]

UniqueIds ==
    \A i, j \in 1..Len(input) :
        i # j /\ SameKind(input[i], input[j]) => input[i].id # input[j].id

\* C32: when the element ids of the input are unique per kind, no pair is
\* pushed twice to any of the five sorters: while the input is read, each
\* sorter has received exactly the pairs of the input, each once (one per
\* node, one per way and distinct node ref, one per relation and distinct
\* member id of each kind).
C32_NoPairPushedTwice ==
    UniqueIds /\ pc = "stream" =>
        \A t \in IndexTableSet :
            /\ ~HasDuplicate(sorters[t].pushed)
            /\ Range(sorters[t].pushed) = PairsPushedTo(t)

\* a way that repeats a node ref and a relation that repeats a member have
\* been handled
C32_Witness ==
    /\ UniqueIds /\ pc = "stream"
    /\ \E i \in 1..Len(input) : input[i].kind = "Way" /\ HasDuplicate(input[i].refs)
    /\ \E i \in 1..Len(input) : input[i].kind = "Relation" /\ HasDuplicate(input[i].members)
    /\ Len(sorters["node_way"].pushed) >= 2

\* the nodes of the input, in order, each handled as a sparse node
RECURSIVE HandledAsSparse(_, _)
HandledAsSparse(st, elems) ==
    IF elems = <<>> THEN st
    ELSE HandledAsSparse(
             IF Head(elems).kind \in NodeKinds
             THEN exec_ops(st, node_ops([Head(elems) EXCEPT !.kind = "Node"]))
             ELSE st,
             Tail(elems))

IsNodePut(e) == e.op = "put" /\ e.table \in {"locations", "nodes"}

\* C33: a node delivered as a dense node causes the same puts and the same
\* pushes as the same node delivered as a sparse node: the puts into
\* locations and nodes, the rows of the two tables and the pairs given to
\* the cell_node sorter are those of the run in which every node of the
\* input is a sparse node.
C33_DenseSameAsSparse ==
    pc = "stream" =>
        LET st == HandledAsSparse([tables |-> EmptyTables, log |-> <<>>,
                                   sorters |-> [n \in IndexTableSet |-> Sorter_new],
                                   status |-> "ok"], input)
        IN /\ SelectSeq(log, IsNodePut) = st.log
           /\ tables["locations"] = st.tables["locations"]
           /\ tables["nodes"] = st.tables["nodes"]
           /\ sorters["cell_node"] = st.sorters["cell_node"]

\* a tagged and an untagged dense node have been handled
C33_Witness ==
    /\ pc = "stream"
    /\ \E i \in 1..Len(input) : input[i].kind = "DenseNode" /\ input[i].tags # <<>>
    /\ \E i \in 1..Len(input) : input[i].kind = "DenseNode" /\ input[i].tags = <<>>

\* C34: for every table that fits the map of 50 GiB, the SIZE (KiB) that
\* stat prints is page_size * (branch + leaf + overflow pages) / 1024: the
\* product does not overflow or wrap.
C34_StatSizeExact ==
    r_result.op = "stat" =>
        /\ r_result.status = "Ok"
        /\ r_result.val[3] = r_result.val[4] + r_result.val[5] + r_result.val[6]
        /\ r_result.val[2] = (PSIZE * r_result.val[3]) \div KIB

\* the segments the worker of a sorter of expand has written once it has
\* received what was pushed, and the paths of their files
SegmentsOf(t) == worker_thread(sorters[t].pushed)
PathsOf(t) == paths_created(t, SegmentsOf(t))

\* C35: the five sorters share no state: the files written by different
\* sorters have different paths, the files of one sorter are numbered
\* 0, 1, 2, ... and none is written twice, and the segments of a sorter
\* hold the records pushed to that sorter and no others.  (Records are
\* pushed only while the input is read; afterwards a sorter keeps what it
\* was given until sorted() consumes it, so the property is stated for the
\* states of that phase.)
C35_SortersShareNothing ==
    pc = "stream" =>
    LET segs == [t \in IndexTableSet |-> SegmentsOf(t)]
        paths == [t \in IndexTableSet |-> paths_created(t, segs[t])]
    IN /\ \A t, u \in IndexTableSet :
             t # u => Range(paths[t]) \cap Range(paths[u]) = {}
       /\ \A t \in IndexTableSet :
             /\ ~HasDuplicate(paths[t])
             /\ \A i \in 1..Len(paths[t]) : paths[t][i][2] = i - 1
             /\ InsertionSort(Flatten(segs[t])) = InsertionSort(sorters[t].pushed)

\* two sorters have each written more than one segment
C35_Witness ==
    \E t, u \in IndexTableSet :
        /\ pc = "stream"
        /\ t # u
        /\ Len(sorters[t].pushed) >= MAX_CACHE_SIZE
        /\ Len(sorters[u].pushed) >= MAX_CACHE_SIZE
        /\ Len(PathsOf(t)) >= 2 /\ SegmentsOf(t)[1] # <<>>
        /\ Len(PathsOf(u)) >= 2 /\ SegmentsOf(u)[1] # <<>>

\* C36: count() is the number of pushes made so far, repeated records
\* included, so sorted() never yields more records than count() reported
\* before the sorter was drained.
C36_CountIsNumberOfPushes ==
    /\ s_count = Len(s_pushed)
    /\ Len(s_gen.out) <= s_count

\* a record was pushed more than once and sorted() has ended with fewer
\* records than count()
C36_Witness ==
    /\ s_pc = "done"
    /\ HasDuplicate(s_pushed)
    /\ Len(s_gen.out) >= 1
    /\ Len(s_gen.out) < s_count

\* C38: sorted() closes the channel and joins the worker before a segment
\* file is opened: from the start of the merge on, the worker has
\* returned, nothing is left in the channel, every record pushed is held
\* by exactly one segment, and the segments read are the ones the worker
\* has left, which it no longer writes.
C38_JoinBeforeMerge ==
    s_pc \in {"seed", "merge", "done"} =>
        /\ w_pc = "returned"
        /\ ~s_txOpen
        /\ s_chan = <<>>
        /\ s_segments = w_state.segments
        /\ w_state.cache = <<>>
        /\ InsertionSort(Flatten(s_segments)) = InsertionSort(s_pushed)

\* the merge runs over two segments with records
C38_Witness ==
    /\ s_pc = "merge"
    /\ Len(s_segments) >= 2
    /\ s_segments[1] # <<>> /\ s_segments[2] # <<>>

NonDecreasing(s) == \A i, j \in 1..Len(s) : i < j => ~PairLess(s[j], s[i])

\* C39: every segment file holds its records in non-decreasing order, and
\* during the merge the heap holds at most one record of a segment, the
\* least record of the segment that has not been popped; no entry of the
\* heap is below the record popped last, so the records are popped, and
\* yielded, in non-decreasing order.
C39_MergePopsInOrder ==
    /\ \A r \in 1..Len(w_state.segments) : NonDecreasing(w_state.segments[r])
    /\ s_pc \in {"merge", "done"} =>
          /\ \A e, f \in s_gen.pqueue : e[2] = f[2] => e = f
          /\ \A e \in s_gen.pqueue :
                /\ e[2] \in 1..Len(s_segments)
                /\ s_gen.pos[e[2]] \in 1..Len(s_segments[e[2]])
                /\ e[1] = s_segments[e[2]][s_gen.pos[e[2]]]
                /\ \A i \in s_gen.pos[e[2]]..Len(s_segments[e[2]]) :
                      ~PairLess(s_segments[e[2]][i], e[1])
                /\ s_gen.prev # None => ~PairLess(e[1], s_gen.prev[1])
          /\ NonDecreasing(s_gen.out)
          /\ s_gen.prev # None =>
                /\ s_gen.out # <<>>
                /\ s_gen.out[Len(s_gen.out)] = s_gen.prev[1]

\* a record has been popped and the heap holds the next records of two
\* segments, one of them read beyond its first record
C39_Witness ==
    /\ s_pc = "merge"
    /\ s_gen.prev # None
    /\ Cardinality(s_gen.pqueue) >= 2
    /\ \E e \in s_gen.pqueue : s_gen.pos[e[2]] >= 2

=============================================================================
